---- MODULE Spec2Model ----
(***************************************************************************)
(* State-machine model of the chat client: the session store, the login   *)
(* screen, the roster (home) screen, the conversation (chat) screen and   *)
(* the module-level socket of services/socket.ts.                         *)
(*                                                                         *)
(* Every await of the source is a scheduling point: an async handler is   *)
(* one action per segment between awaits.  React state hooks are the      *)
(* variables users/loading (HomeScreen) and messages/messageText/isTyping/ *)
(* currentUser (ChatScreen); a setter call is an assignment.  The source  *)
(* guards no setter by a mounted/cancelled flag, so neither does the      *)
(* model: the variables of the latest instance of a screen stay           *)
(* observable after its cleanup ran.  State of earlier instances of a     *)
(* screen is not tracked.                                                  *)
(***************************************************************************)
EXTENDS Integers, Sequences, FiniteSets, TLC

\* ----------------------------------------------------------------- bounds
\* Clock value of the initial state (any instant long after 1970).
Epoch == 1000
\* The clock advances at most MaxClock minutes.
MaxClock == 1
\* Messages one ChatScreen instance appends (sends and pushes together).
MaxAppends == 2
\* Number of HomeScreen instances (logins) in one run of the app.
MaxHomeInst == 2

\* ------------------------------------------------------ program constants
\* Offsets of the demo data, in minutes.
TenMin == 10
FiveMin == 5
ThirtyMin == 30

\* ---------------------------------------------------------------- values
Undefined == "undefined"
NoSocket == 0

\* A parsed user object; a missing field reads as undefined.  null is the
\* record whose null flag is set (every field of null?.x is undefined).
UserObj(uid, id, name) == [null |-> FALSE, _id |-> uid, id |-> id, username |-> name]
NullUser == [null |-> TRUE, _id |-> Undefined, id |-> Undefined, username |-> Undefined]

\* The user object handleLogin stores on the mock path: it has id, not _id.
MockLoginUser == UserObj(Undefined, "1", "TestUser")
MockToken == "mock-token-for-testing"

\* Users a server may return from /auth/login (shape of type User: _id).
ServerUsers == {UserObj("7", Undefined, "Zed")}
ServerToken == "server-token"

\* JSON.stringify of a user object: the key/value pairs of its defined
\* fields; JSON.parse rebuilds the object, absent keys read as undefined.
UserKeys == {"_id", "id", "username"}
JSONstringify(u) == {<<k, u[k]>> : k \in {k2 \in UserKeys : u[k2] # Undefined}}
JSONfield(s, k) == IF \E p \in s : p[1] = k THEN (CHOOSE p \in s : p[1] = k)[2] ELSE Undefined
JSONparse(s) == UserObj(JSONfield(s, "_id"), JSONfield(s, "id"), JSONfield(s, "username"))

\* AsyncStorage: an absent item reads as null.
AbsentItem == {}
NoToken == "null"
EmptyStore == [token |-> NoToken, user |-> AbsentItem]

\* x || '1' on a possibly undefined string.
OrElse(x, dflt) == IF x = Undefined \/ x = "" THEN dflt ELSE x

\* The id by which a stored user object identifies its user.
UserIdOf(u) == IF u._id # Undefined THEN u._id ELSE u.id

\* Message text: a sequence of tokens; " " is whitespace.
IsSpace(c) == c = " "
RECURSIVE trimStart(_)
trimStart(t) == IF t # <<>> /\ IsSpace(Head(t)) THEN trimStart(Tail(t)) ELSE t
RECURSIVE trimEnd(_)
trimEnd(t) == IF t # <<>> /\ IsSpace(t[Len(t)]) THEN trimEnd(SubSeq(t, 1, Len(t) - 1)) ELSE t
trim(t) == trimEnd(trimStart(t))
\* Texts the user may type into the input.
Texts == {<<" ">>, <<" ", "hi">>}

VARIABLES
  baseURLLocal,   \* api.defaults.baseURL is unset or contains 'localhost'
  now,            \* Date.now(), in minutes
  store,          \* AsyncStorage: token and user
  screen,         \* the route on top of the navigation stack
  socket,         \* services/socket.ts: the module-level socket (0 = null)
  connected,      \* sockets created by io() and not disconnected
  listeners,      \* registered socket listeners: [sock, event, owner, inst]
  threw,          \* an exception escaped a cleanup or a handler
  loginPc,        \* LoginScreen: position of handleLogin
  loginLoading,   \* LoginScreen: loading
  loginAlert,     \* LoginScreen: title of the Alert.alert this instance showed last
  loginPending,   \* LoginScreen: token and user about to be stored
  homeInst,       \* number of HomeScreen instances created so far
  homeMounted,    \* the latest HomeScreen instance is mounted
  users,          \* HomeScreen: users
  loading,        \* HomeScreen: loading
  homeFetch,      \* HomeScreen: loadData of the latest instance
  initPending,    \* HomeScreen instances whose initializeSocket() is pending
  chatInst,       \* number of ChatScreen instances created so far
  chatMounted,    \* the latest ChatScreen instance is mounted
  recipientId,    \* ChatScreen: route.params.recipientId
  recipientName,  \* ChatScreen: route.params.recipientName
  messages,       \* ChatScreen: messages
  messageText,    \* ChatScreen: messageText
  isTyping,       \* ChatScreen: isTyping
  currentUser,    \* ChatScreen: currentUser
  chatSocket,     \* ChatScreen: socket captured by the effect closure
  renderSocket,   \* ChatScreen: socket = getSocket() of the latest render
  userLoad,       \* ChatScreen: loadCurrentUser of the latest instance
  chatFetch,      \* ChatScreen: loadMessages of the latest instance
  emitted,        \* ChatScreen: payloads of the message:send events it emitted
  appends         \* ChatScreen: messages appended so far (sends and pushes)

globalVars == <<baseURLLocal, now, store, screen, socket, connected, listeners, threw>>
loginVars == <<loginPc, loginLoading, loginAlert, loginPending>>
homeVars == <<homeInst, homeMounted, users, loading, homeFetch, initPending>>
chatVars == <<chatInst, chatMounted, recipientId, recipientName, messages, messageText,
              isTyping, currentUser, chatSocket, renderSocket, userLoad, chatFetch, emitted,
              appends>>
vars == <<globalVars, loginVars, homeVars, chatVars>>

NoPending == [token |-> NoToken, user |-> NullUser]

Init ==
  /\ baseURLLocal \in BOOLEAN
  /\ now = Epoch
  /\ store = EmptyStore
  /\ screen = "Login"
  /\ socket = NoSocket
  /\ connected = {}
  /\ listeners = {}
  /\ threw = FALSE
  /\ loginPc = "idle"
  /\ loginLoading = FALSE
  /\ loginAlert = "none"
  /\ loginPending = NoPending
  /\ homeInst = 0
  /\ homeMounted = FALSE
  /\ users = <<>>
  /\ loading = TRUE
  /\ homeFetch = "idle"
  /\ initPending = {}
  /\ chatInst = 0
  /\ chatMounted = FALSE
  /\ recipientId = Undefined
  /\ recipientName = Undefined
  /\ messages = <<>>
  /\ messageText = <<>>
  /\ isTyping = FALSE
  /\ currentUser = NullUser
  /\ chatSocket = NoSocket
  /\ renderSocket = NoSocket
  /\ userLoad = "idle"
  /\ chatFetch = "idle"
  /\ emitted = <<>>
  /\ appends = 0

\* The wall clock advances.
Tick ==
  /\ now < Epoch + MaxClock
  /\ now' = now + 1
  /\ UNCHANGED <<baseURLLocal, store, screen, socket, connected, listeners, threw>>
  /\ UNCHANGED <<loginVars, homeVars, chatVars>>

\* ------------------------------------------------------ services/socket.ts
\* socket.on(event, handler): the handler belongs to instance inst of owner.
on(ls, s, event, owner, inst) ==
  ls \cup {[sock |-> s, event |-> event, owner |-> owner, inst |-> inst]}

\* socket.off(event): removes every listener of the event on that socket.
off(ls, s, event) == {l \in ls : ~(l.sock = s /\ l.event = event)}

\* The listener of event that instance inst of owner registered on socket s.
Listening(s, event, owner, inst) ==
  [sock |-> s, event |-> event, owner |-> owner, inst |-> inst] \in listeners

\* getSocket()
getSocket == socket

\* io(...) of initializeSocket: a fresh connection.
NewSocket == Cardinality(connected) + 1

\* ------------------------------------------------------------ LoginScreen
\* handleLogin up to its first await.
handleLogin(emailEmpty, passwordEmpty) ==
  /\ screen = "Login"
  /\ loginPc = "idle"
  /\ ~loginLoading
  /\ homeInst < MaxHomeInst
  /\ IF emailEmpty \/ passwordEmpty
       THEN /\ loginAlert' = "Error"
            /\ UNCHANGED <<loginPc, loginLoading, loginPending>>
       ELSE /\ loginLoading' = TRUE
            /\ loginAlert' = "none"
            /\ IF baseURLLocal
                 THEN /\ loginPc' = "setToken"
                      /\ loginPending' = [token |-> MockToken, user |-> MockLoginUser]
                 ELSE /\ loginPc' = "post"
                      /\ UNCHANGED loginPending
  /\ UNCHANGED <<globalVars, homeVars, chatVars>>

\* api.post('/auth/login') resolves with {token, user}.
loginPostOk(user) ==
  /\ loginPc = "post"
  /\ loginPc' = "setToken"
  /\ loginPending' = [token |-> ServerToken, user |-> user]
  /\ UNCHANGED <<loginLoading, loginAlert>>
  /\ UNCHANGED <<globalVars, homeVars, chatVars>>

\* api.post rejects with a network error: the mock login is substituted.
loginPostNetworkError ==
  /\ loginPc = "post"
  /\ loginAlert' = "Info"
  /\ loginPc' = "setToken"
  /\ loginPending' = [token |-> MockToken, user |-> MockLoginUser]
  /\ UNCHANGED loginLoading
  /\ UNCHANGED <<globalVars, homeVars, chatVars>>

\* Mutant: the rejection is shown but setLoading(false) of the finally
\* block is missing.
loginPostRejectedNoFinally ==
  /\ loginPc = "post"
  /\ loginAlert' = "Error"
  /\ loginPc' = "idle"
  /\ UNCHANGED <<loginLoading, loginPending>>
  /\ UNCHANGED <<globalVars, homeVars, chatVars>>

\* api.post rejects with a failure response: the error is shown.
loginPostRejected ==
  /\ loginPc = "post"
  /\ loginAlert' = "Error"
  /\ loginPc' = "idle"
  /\ loginLoading' = FALSE
  /\ UNCHANGED loginPending
  /\ UNCHANGED <<globalVars, homeVars, chatVars>>

\* await AsyncStorage.setItem('token', ...)
loginSetToken ==
  /\ loginPc = "setToken"
  /\ store' = [store EXCEPT !.token = loginPending.token]
  /\ loginPc' = "setUser"
  /\ UNCHANGED <<baseURLLocal, now, screen, socket, connected, listeners, threw>>
  /\ UNCHANGED <<loginLoading, loginAlert, loginPending>>
  /\ UNCHANGED <<homeVars, chatVars>>

\* await AsyncStorage.setItem('user', JSON.stringify(...)), then
\* navigation.replace('Home') and the finally block; LoginScreen unmounts,
\* HomeScreen mounts and its effect starts loadData() and initializeSocket().
loginSetUser ==
  /\ loginPc = "setUser"
  /\ store' = [store EXCEPT !.user = JSONstringify(loginPending.user)]
  /\ screen' = "Home"
  /\ loginPc' = "idle"
  /\ loginLoading' = FALSE
  /\ loginPending' = NoPending
  /\ homeInst' = homeInst + 1
  /\ homeMounted' = TRUE
  /\ users' = <<>>
  /\ loading' = TRUE
  /\ homeFetch' = "pending"
  /\ initPending' = initPending \cup {homeInst + 1}
  /\ loginAlert' = "none"
  /\ UNCHANGED <<baseURLLocal, now, socket, connected, listeners, threw>>
  /\ UNCHANGED chatVars

\* ------------------------------------------------------------- HomeScreen
User(uid, name, online, seen) ==
  [_id |-> uid, username |-> name, email |-> name, isOnline |-> online, lastSeen |-> seen]

\* loadMockData: the demo roster.
mockUsers(t) ==
  << User("1", "Alice", TRUE, t),
     User("2", "Bob", FALSE, t - ThirtyMin),
     User("3", "Charlie", TRUE, t) >>

\* Rosters GET /users may return.
RosterResponses(t) ==
  { <<>>,
    << User("2", "Bob", TRUE, t - 1) >> }

\* User ids presence events may carry ("9" is in no roster).
PresenceIds == {"2", "9"}

\* Mutant: the user:online handler stamps lastSeen like user:offline does.
RECURSIVE onUserOnlineStamped(_, _)
onUserOnlineStamped(us, uid) ==
  IF us = <<>> THEN <<>>
  ELSE << IF Head(us)._id = uid
            THEN [Head(us) EXCEPT !.isOnline = TRUE, !.lastSeen = now]
            ELSE Head(us) >>
       \o onUserOnlineStamped(Tail(us), uid)

\* Mutant: the user:offline handler does not stamp lastSeen.
RECURSIVE onUserOfflineNoStamp(_, _, _)
onUserOfflineNoStamp(us, uid, t) ==
  IF us = <<>> THEN <<>>
  ELSE << IF Head(us)._id = uid THEN [Head(us) EXCEPT !.isOnline = FALSE] ELSE Head(us) >>
       \o onUserOfflineNoStamp(Tail(us), uid, t)

\* The user:online handler's update of the roster:
\* prev.map(user => user._id === userId ? {...user, isOnline: true} : user)
RECURSIVE onUserOnline(_, _)
onUserOnline(us, uid) ==
  IF us = <<>> THEN <<>>
  ELSE << IF Head(us)._id = uid THEN [Head(us) EXCEPT !.isOnline = TRUE] ELSE Head(us) >>
       \o onUserOnline(Tail(us), uid)

\* The user:offline handler's update of the roster; t is new Date().
RECURSIVE onUserOffline(_, _, _)
onUserOffline(us, uid, t) ==
  IF us = <<>> THEN <<>>
  ELSE << IF Head(us)._id = uid
            THEN [Head(us) EXCEPT !.isOnline = FALSE, !.lastSeen = t]
            ELSE Head(us) >>
       \o onUserOffline(Tail(us), uid, t)

\* loadData: api.get('/users') resolves; setUsers(response.data) and the
\* finally block.
homeLoadDataOk(resp) ==
  /\ homeFetch = "pending"
  /\ users' = resp
  /\ loading' = FALSE
  /\ homeFetch' = "done"
  /\ UNCHANGED <<homeInst, homeMounted, initPending>>
  /\ UNCHANGED <<globalVars, loginVars, chatVars>>

\* loadData: the request fails; loadMockData() and the finally block.
homeLoadDataFail ==
  /\ homeFetch = "pending"
  /\ users' = mockUsers(now)
  /\ loading' = FALSE
  /\ homeFetch' = "done"
  /\ UNCHANGED <<homeInst, homeMounted, initPending>>
  /\ UNCHANGED <<globalVars, loginVars, chatVars>>

\* initializeSocket() of instance i resolves: the module-level socket is
\* overwritten by a new connection and the .then callback registers the
\* presence listeners of instance i on it.
socketInitResolve(i) ==
  /\ i \in initPending
  /\ initPending' = initPending \ {i}
  /\ socket' = NewSocket
  /\ connected' = connected \cup {NewSocket}
  /\ listeners' = on(on(listeners, NewSocket, "user:online", "home", i),
                     NewSocket, "user:offline", "home", i)
  /\ UNCHANGED <<baseURLLocal, now, store, screen, threw>>
  /\ UNCHANGED <<homeInst, homeMounted, users, loading, homeFetch>>
  /\ UNCHANGED <<loginVars, chatVars>>

\* initializeSocket() of instance i rejects (AsyncStorage.getItem fails):
\* the .catch callback runs loadMockData() of instance i.
socketInitReject(i) ==
  /\ i \in initPending
  /\ initPending' = initPending \ {i}
  /\ IF i = homeInst
       THEN users' = mockUsers(now) /\ loading' = FALSE
       ELSE UNCHANGED <<users, loading>>
  /\ UNCHANGED <<homeInst, homeMounted, homeFetch>>
  /\ UNCHANGED <<globalVars, loginVars, chatVars>>

\* The server pushes user:online{userId} on connection s.
deliverUserOnline(s, uid) ==
  /\ s \in connected
  /\ users' = IF Listening(s, "user:online", "home", homeInst)
                THEN onUserOnline(users, uid) ELSE users
  /\ UNCHANGED <<homeInst, homeMounted, loading, homeFetch, initPending>>
  /\ UNCHANGED <<globalVars, loginVars, chatVars>>

\* The server pushes user:offline{userId} on connection s.
deliverUserOffline(s, uid) ==
  /\ s \in connected
  /\ users' = IF Listening(s, "user:offline", "home", homeInst)
                THEN onUserOffline(users, uid, now) ELSE users
  /\ UNCHANGED <<homeInst, homeMounted, loading, homeFetch, initPending>>
  /\ UNCHANGED <<globalVars, loginVars, chatVars>>

\* The cleanup of HomeScreen's effect: the listeners it removes and whether
\* it throws.
homeCleanup(ls, s) ==
  IF s # NoSocket
    THEN [ls |-> off(off(ls, s, "user:online"), s, "user:offline"), threw |-> FALSE]
    ELSE [ls |-> ls, threw |-> FALSE]

\* handleLogout (the button renders only when loading is false); the
\* unmount of HomeScreen runs the effect's cleanup.
handleLogout ==
  /\ screen = "Home"
  /\ homeMounted
  /\ ~loading
  /\ store' = EmptyStore
  /\ screen' = "Login"
  /\ homeMounted' = FALSE
  /\ listeners' = homeCleanup(listeners, getSocket).ls
  /\ threw' = (threw \/ homeCleanup(listeners, getSocket).threw)
  /\ UNCHANGED <<baseURLLocal, now, socket, connected>>
  /\ UNCHANGED <<homeInst, users, loading, homeFetch, initPending>>
  /\ UNCHANGED <<loginVars, chatVars>>

\* The cleanup of the latest HomeScreen instance is called once more.
homeCleanupAgain ==
  /\ homeInst > 0
  /\ ~homeMounted
  /\ listeners' = homeCleanup(listeners, getSocket).ls
  /\ threw' = (threw \/ homeCleanup(listeners, getSocket).threw)
  /\ UNCHANGED <<baseURLLocal, now, store, screen, socket, connected>>
  /\ UNCHANGED <<loginVars, homeVars, chatVars>>

\* ------------------------------------------------------------- ChatScreen
Msg(id, senderId, senderName, text, at, readBy) ==
  [_id |-> id, sender |-> [_id |-> senderId, username |-> senderName],
   text |-> text, createdAt |-> at, readBy |-> readBy]

\* createdAt holds the instant its ISO-8601 string denotes; the code never
\* parses or compares the string.

\* currentUser as the closures of the first render see it: the effect runs
\* loadMessages of the first render, whose loadMockMessages reads the
\* initial state of the hook.
effectCurrentUser == NullUser

\* loadMockMessages: the demo seed, cu being the currentUser it reads.
loadMockMessages(cu, rid, rname, t) ==
  << Msg("1", OrElse(cu._id, "1"), OrElse(cu.username, "You"),
         <<"Hello there!">>, t - TenMin, <<>>),
     Msg("2", rid, rname, <<"Hi! How are you?">>, t - FiveMin, <<OrElse(cu._id, "1")>>),
     Msg("3", OrElse(cu._id, "1"), OrElse(cu.username, "You"),
         <<"I'm good, thanks! This is a demo chat.">>, t, <<>>) >>

\* Messages the server may push as message:new at time t ("s1", "s2" are
\* ids the server assigns); createdAt is the server's stamp, taken before
\* the delivery.
PushedMessages(t, rid, rname) ==
  {Msg(id, rid, rname, <<"yo">>, at, <<>>) : id \in {"s1"}, at \in {t - 1}}

\* Histories GET /messages may return at time t, in the server's order.
FetchedHistories(t, rid, rname) ==
  { <<>>,
    << Msg("s1", rid, rname, <<"yo">>, t - 1, <<>>), Msg("s2", rid, rname, <<"yo">>, t, <<>>) >>,
    << Msg("s2", rid, rname, <<"yo">>, t, <<>>), Msg("s1", rid, rname, <<"yo">>, t - 1, <<>>) >> }

\* The message sendMessage builds from the state of the latest render.
mockMessage(cu, text, t) ==
  Msg(ToString(t), OrElse(cu._id, "1"), OrElse(cu.username, "You"), text, t, <<>>)

\* The payload of message:send; conversationId is never passed by
\* handleUserPress, so conversationId || null is null.
sendPayload(text, rid) == [text |-> text, receiverId |-> rid, conversationId |-> "null"]

\* Mutant: the handlers do not compare the event's userId.
onTypingAnyUser(flag, uid, rid, value) == value

\* The typing:start / typing:stop handlers' update of isTyping.
onTyping(flag, uid, rid, value) == IF uid = rid THEN value ELSE flag

\* The cleanup of ChatScreen's effect on the socket s the effect captured.
chatCleanup(ls, s) ==
  IF s # NoSocket
    THEN [ls |-> off(off(off(ls, s, "message:new"), s, "typing:start"), s, "typing:stop"),
          threw |-> FALSE]
    ELSE [ls |-> ls, threw |-> FALSE]

\* handleUserPress(users[k]): navigation.navigate('Chat', ...); ChatScreen
\* mounts and its effect runs loadCurrentUser(), loadMessages() (the demo
\* seed at once when the base URL is local) and registers the listeners.
handleUserPress(k) ==
  /\ screen = "Home"
  /\ homeMounted
  /\ ~loading
  /\ k \in DOMAIN users
  /\ chatInst = 0
  /\ screen' = "Chat"
  /\ chatInst' = chatInst + 1
  /\ chatMounted' = TRUE
  /\ recipientId' = users[k]._id
  /\ recipientName' = users[k].username
  /\ messageText' = <<>>
  /\ isTyping' = FALSE
  /\ currentUser' = NullUser
  /\ chatSocket' = getSocket
  /\ renderSocket' = getSocket
  /\ userLoad' = "pending"
  /\ IF baseURLLocal
       THEN /\ messages' = loadMockMessages(effectCurrentUser, users[k]._id,
                                            users[k].username, now)
            /\ chatFetch' = "done"
       ELSE /\ messages' = <<>>
            /\ chatFetch' = "pending"
  /\ listeners' =
       IF getSocket # NoSocket
         THEN on(on(on(listeners, getSocket, "message:new", "chat", chatInst + 1),
                    getSocket, "typing:start", "chat", chatInst + 1),
                 getSocket, "typing:stop", "chat", chatInst + 1)
         ELSE listeners
  /\ emitted' = <<>>
  /\ appends' = 0
  /\ UNCHANGED <<baseURLLocal, now, store, socket, connected, threw>>
  /\ UNCHANGED <<loginVars, homeVars>>

\* loadCurrentUser: AsyncStorage.getItem('user') resolves.
loadCurrentUserOk ==
  /\ userLoad = "pending"
  /\ userLoad' = "done"
  /\ currentUser' = IF store.user # AbsentItem THEN JSONparse(store.user) ELSE currentUser
  /\ renderSocket' = getSocket
  /\ UNCHANGED <<chatInst, chatMounted, recipientId, recipientName, messages, messageText,
                 isTyping, chatSocket, chatFetch, emitted, appends>>
  /\ UNCHANGED <<globalVars, loginVars, homeVars>>

\* loadCurrentUser: AsyncStorage.getItem('user') rejects; the error is logged.
loadCurrentUserFail ==
  /\ userLoad = "pending"
  /\ userLoad' = "done"
  /\ UNCHANGED <<chatInst, chatMounted, recipientId, recipientName, messages, messageText,
                 isTyping, currentUser, chatSocket, renderSocket, chatFetch, emitted, appends>>
  /\ UNCHANGED <<globalVars, loginVars, homeVars>>

\* loadMessages: api.get resolves; setMessages(response.data).
loadMessagesOk(resp) ==
  /\ chatFetch = "pending"
  /\ chatFetch' = "done"
  /\ messages' = resp
  /\ renderSocket' = getSocket
  /\ UNCHANGED <<chatInst, chatMounted, recipientId, recipientName, messageText,
                 isTyping, currentUser, chatSocket, userLoad, emitted, appends>>
  /\ UNCHANGED <<globalVars, loginVars, homeVars>>

\* loadMessages: api.get rejects; loadMockMessages() of the first render.
loadMessagesFail ==
  /\ chatFetch = "pending"
  /\ chatFetch' = "done"
  /\ messages' = loadMockMessages(effectCurrentUser, recipientId, recipientName, now)
  /\ renderSocket' = getSocket
  /\ UNCHANGED <<chatInst, chatMounted, recipientId, recipientName, messageText,
                 isTyping, currentUser, chatSocket, userLoad, emitted, appends>>
  /\ UNCHANGED <<globalVars, loginVars, homeVars>>

\* onChangeText={setMessageText}
onChangeText(t) ==
  /\ screen = "Chat"
  /\ chatMounted
  /\ messageText' = t
  /\ renderSocket' = getSocket
  /\ UNCHANGED <<chatInst, chatMounted, recipientId, recipientName, messages,
                 isTyping, currentUser, chatSocket, userLoad, chatFetch, emitted, appends>>
  /\ UNCHANGED <<globalVars, loginVars, homeVars>>

\* sendMessage (onPress of the send button, onSubmitEditing of the input).
sendMessage ==
  /\ screen = "Chat"
  /\ chatMounted
  /\ IF trim(messageText) = <<>>
       THEN UNCHANGED <<messages, emitted, messageText, renderSocket, appends>>
       ELSE /\ appends < MaxAppends
            /\ appends' = appends + 1
            /\ messages' = Append(messages, mockMessage(currentUser, messageText, now))
            /\ emitted' = IF renderSocket # NoSocket
                            THEN Append(emitted, sendPayload(messageText, recipientId))
                            ELSE emitted
            /\ messageText' = <<>>
            /\ renderSocket' = getSocket
  /\ UNCHANGED <<chatInst, chatMounted, recipientId, recipientName,
                 isTyping, currentUser, chatSocket, userLoad, chatFetch>>
  /\ UNCHANGED <<globalVars, loginVars, homeVars>>

\* Mutant: the handler appends to the list its closure captured at mount
\* (setMessages([...messages, message])), which is the empty list.
deliverMessageNewStale(s, m) ==
  /\ s \in connected
  /\ IF Listening(s, "message:new", "chat", chatInst)
       THEN /\ appends < MaxAppends
            /\ appends' = appends + 1
            /\ messages' = <<m>>
            /\ renderSocket' = getSocket
       ELSE UNCHANGED <<messages, renderSocket, appends>>
  /\ UNCHANGED <<chatInst, chatMounted, recipientId, recipientName, messageText,
                 isTyping, currentUser, chatSocket, userLoad, chatFetch, emitted>>
  /\ UNCHANGED <<globalVars, loginVars, homeVars>>

\* The server pushes message:new on connection s.
deliverMessageNew(s, m) ==
  /\ s \in connected
  /\ IF Listening(s, "message:new", "chat", chatInst)
       THEN /\ appends < MaxAppends
            /\ appends' = appends + 1
            /\ messages' = Append(messages, m)
            /\ renderSocket' = getSocket
       ELSE UNCHANGED <<messages, renderSocket, appends>>
  /\ UNCHANGED <<chatInst, chatMounted, recipientId, recipientName, messageText,
                 isTyping, currentUser, chatSocket, userLoad, chatFetch, emitted>>
  /\ UNCHANGED <<globalVars, loginVars, homeVars>>

\* The server pushes typing:start{userId} on connection s.
deliverTypingStart(s, uid) ==
  /\ s \in connected
  /\ IF Listening(s, "typing:start", "chat", chatInst)
       THEN /\ isTyping' = onTyping(isTyping, uid, recipientId, TRUE)
            /\ renderSocket' = IF uid = recipientId THEN getSocket ELSE renderSocket
       ELSE UNCHANGED <<isTyping, renderSocket>>
  /\ UNCHANGED <<chatInst, chatMounted, recipientId, recipientName, messages, messageText,
                 currentUser, chatSocket, userLoad, chatFetch, emitted, appends>>
  /\ UNCHANGED <<globalVars, loginVars, homeVars>>

\* The server pushes typing:stop{userId} on connection s.
deliverTypingStop(s, uid) ==
  /\ s \in connected
  /\ IF Listening(s, "typing:stop", "chat", chatInst)
       THEN /\ isTyping' = onTyping(isTyping, uid, recipientId, FALSE)
            /\ renderSocket' = IF uid = recipientId THEN getSocket ELSE renderSocket
       ELSE UNCHANGED <<isTyping, renderSocket>>
  /\ UNCHANGED <<chatInst, chatMounted, recipientId, recipientName, messages, messageText,
                 currentUser, chatSocket, userLoad, chatFetch, emitted, appends>>
  /\ UNCHANGED <<globalVars, loginVars, homeVars>>

\* Back navigation: ChatScreen unmounts and the effect's cleanup runs.
chatBack ==
  /\ screen = "Chat"
  /\ chatMounted
  /\ screen' = "Home"
  /\ chatMounted' = FALSE
  /\ listeners' = chatCleanup(listeners, chatSocket).ls
  /\ threw' = (threw \/ chatCleanup(listeners, chatSocket).threw)
  /\ UNCHANGED <<baseURLLocal, now, store, socket, connected>>
  /\ UNCHANGED <<chatInst, recipientId, recipientName, messages, messageText, isTyping,
                 currentUser, chatSocket, renderSocket, userLoad, chatFetch, emitted, appends>>
  /\ UNCHANGED <<loginVars, homeVars>>

\* The cleanup of the latest ChatScreen instance is called once more.
chatCleanupAgain ==
  /\ chatInst > 0
  /\ ~chatMounted
  /\ listeners' = chatCleanup(listeners, chatSocket).ls
  /\ threw' = (threw \/ chatCleanup(listeners, chatSocket).threw)
  /\ UNCHANGED <<baseURLLocal, now, store, screen, socket, connected>>
  /\ UNCHANGED <<loginVars, homeVars, chatVars>>

\* User ids typing events may carry ("9" is in no roster).
TypingIds == {"2", "9"}

\* LoginScreen: the steps of handleLogin.
LoginStep ==
  \/ \E e, p \in BOOLEAN : handleLogin(e, p)
  \/ \E u \in ServerUsers : loginPostOk(u)
  \/ loginPostNetworkError
  \/ loginPostRejected
  \/ loginSetToken
  \/ loginSetUser

\* HomeScreen's loadData and initializeSocket settle.
HomeLoadStep ==
  \/ \E r \in RosterResponses(now) : homeLoadDataOk(r)
  \/ homeLoadDataFail
  \/ \E i \in initPending : socketInitResolve(i)
  \/ \E i \in initPending : socketInitReject(i)

\* The roster: presence events, logout and re-login.
HomeStep ==
  \/ \E s \in connected, uid \in PresenceIds : deliverUserOnline(s, uid)
  \/ \E s \in connected, uid \in PresenceIds : deliverUserOffline(s, uid)
  \/ handleLogout
  \/ homeCleanupAgain

\* The conversation.
ChatStep ==
  \/ \E k \in DOMAIN users : handleUserPress(k)
  \/ loadCurrentUserOk
  \/ loadCurrentUserFail
  \/ \E r \in FetchedHistories(now, recipientId, recipientName) : loadMessagesOk(r)
  \/ loadMessagesFail
  \/ \E t \in Texts : onChangeText(t)
  \/ sendMessage
  \/ \E s \in connected, m \in PushedMessages(now, recipientId, recipientName) :
       deliverMessageNew(s, m)
  \/ \E s \in connected, uid \in TypingIds : deliverTypingStart(s, uid)
  \/ \E s \in connected, uid \in TypingIds : deliverTypingStop(s, uid)
  \/ chatBack
  \/ chatCleanupAgain

\* The whole client.  Its state space is the product of the roster's and the
\* conversation's, so the claims are checked under the two specifications
\* below, which split Next by screen.
Next == Tick \/ LoginStep \/ HomeLoadStep \/ HomeStep \/ ChatStep

Spec == Init /\ [][Next]_vars

\* The session and the roster screen, no conversation opened.
NextHome == Tick \/ LoginStep \/ HomeLoadStep \/ HomeStep

SpecHome == Init /\ [][NextHome]_vars

\* The clock advances once after the conversation opened.  The model is
\* invariant under a shift of Epoch, so an advance before that instant is
\* a run with a later Epoch.
ChatTick == chatInst > 0 /\ now = Epoch /\ Tick

\* One login and the conversation screen, no presence events.
NextChat == ChatTick \/ LoginStep \/ HomeLoadStep \/ ChatStep

SpecChat == Init /\ [][NextChat]_vars

\* ------------------------------------------------------------------ claims
\* The id of the user whose record the session store holds.
StoredUserId == UserIdOf(JSONparse(store.user))

IsPrefix(a, b) == Len(a) <= Len(b) /\ SubSeq(b, 1, Len(a)) = a

Ascending(ms) == \A i, j \in DOMAIN ms : i < j => ms[i].createdAt <= ms[j].createdAt

StrictlyAscending(ms) == \A i, j \in DOMAIN ms : i < j => ms[i].createdAt < ms[j].createdAt

\* The latest instance of the screen has been torn down.
ChatTornDown == chatInst > 0 /\ ~chatMounted
HomeTornDown == homeInst > 0 /\ ~homeMounted

\* C1: a send with non-blank text appends exactly one message, at the end,
\* whose sender is the user of the session store and whose text is the
\* input, all earlier entries unchanged; a send with blank text leaves the
\* message list unchanged.
C1_SendLocal ==
  [][sendMessage =>
       IF trim(messageText) # <<>>
         THEN /\ Len(messages') = Len(messages) + 1
              /\ IsPrefix(messages, messages')
              /\ messages'[Len(messages')].text = messageText
              /\ messages'[Len(messages')].sender._id = StoredUserId
         ELSE messages' = messages]_vars

\* C2: when the history request fails, the message list becomes exactly
\* three messages with strictly increasing createdAt, the first and third
\* sent by the current user and the second by the recipient.
C2_LoadInitialFailure ==
  [][loadMessagesFail =>
       /\ Len(messages') = 3
       /\ StrictlyAscending(messages')
       /\ messages'[1].sender._id = StoredUserId
       /\ messages'[3].sender._id = StoredUserId
       /\ messages'[2].sender._id = recipientId]_vars

C4_Typing ==
  [][\A s \in connected, uid \in TypingIds :
       /\ deliverTypingStart(s, uid) =>
            /\ messages' = messages
            /\ uid # recipientId => isTyping' = isTyping
            /\ (uid = recipientId /\ Listening(s, "typing:start", "chat", chatInst))
                 => isTyping'
       /\ deliverTypingStop(s, uid) =>
            /\ messages' = messages
            /\ uid # recipientId => isTyping' = isTyping
            /\ (uid = recipientId /\ Listening(s, "typing:stop", "chat", chatInst))
                 => ~isTyping']_vars

\* C4 witness: the recipient's typing:start has set the flag.
C4_Witness == chatMounted /\ isTyping /\ recipientId \in TypingIds

\* The entries of roster b are those of roster a, except that the entries
\* with id uid may differ.
SameExcept(a, b, uid) ==
  /\ Len(a) = Len(b)
  /\ \A k \in DOMAIN a : a[k]._id # uid => b[k] = a[k]

\* C5: a handled user:offline event leaves an entry with that id offline,
\* with lastSeen not earlier than the time before the event, and changes
\* nothing else; for an id not in the roster the roster is unchanged.
C5_UserOffline ==
  [][\A s \in connected, uid \in PresenceIds :
       (deliverUserOffline(s, uid) /\ Listening(s, "user:offline", "home", homeInst)) =>
         /\ SameExcept(users, users', uid)
         /\ \A k \in DOMAIN users : users[k]._id = uid =>
              /\ users'[k] = [users[k] EXCEPT !.isOnline = FALSE,
                                              !.lastSeen = users'[k].lastSeen]
              /\ users'[k].lastSeen >= now]_vars

\* C5 witness: Bob went offline by an event and was stamped with the clock.
C5_Witness ==
  \E k \in DOMAIN users :
    users[k]._id = "2" /\ ~users[k].isOnline /\ users[k].lastSeen = now

\* C6: a handled user:online event leaves an entry with that id online,
\* with lastSeen as before, and changes nothing else; for an id not in the
\* roster the roster is unchanged.
C6_UserOnline ==
  [][\A s \in connected, uid \in PresenceIds :
       (deliverUserOnline(s, uid) /\ Listening(s, "user:online", "home", homeInst)) =>
         /\ SameExcept(users, users', uid)
         /\ \A k \in DOMAIN users : users[k]._id = uid =>
              users'[k] = [users[k] EXCEPT !.isOnline = TRUE]]_vars

\* C6 witness: in the demo roster Bob is online and still carries the
\* lastSeen of thirty minutes before the roster was built.
C6_Witness ==
  /\ Len(users) = 3
  /\ users[2]._id = "2"
  /\ users[2].isOnline
  /\ users[2].lastSeen = users[1].lastSeen - ThirtyMin

\* C7: the message list is always in non-decreasing createdAt order.
C7_Ordered == Ascending(messages)

\* C8 as stated: while the screen is open no step removes or changes a
\* message of the list (before the initial load settles the list holds
\* appended messages only).
C8_NoRetraction ==
  [][(chatMounted /\ chatMounted') => IsPrefix(messages, messages')]_vars

\* C8 amended: once the initial load has settled, no step removes or
\* changes a message of the list while the screen is open.
C8_NoRetractionAfterLoad ==
  [][(chatMounted /\ chatMounted' /\ chatFetch = "done")
       => IsPrefix(messages, messages')]_vars

\* C8 witness: messages were appended to a loaded demo history.
C8_Witness == chatMounted /\ chatFetch = "done" /\ appends > 0 /\ Len(messages) = 3 + appends

C10_SingleConnection ==
  /\ Cardinality(connected) <= 1
  /\ connected # {} => connected = {getSocket}

\* Ids the server assigns to the messages it returns or pushes.
ServerIds == {"s1", "s2"}

\* C11: the entries of the message list have pairwise distinct ids (an id
\* the server itself assigned to two entries is not counted).
C11_UniqueIds ==
  \A i, j \in DOMAIN messages :
    (i # j /\ messages[i]._id = messages[j]._id) => messages[i]._id \in ServerIds

\* C12: a send with non-blank text emits exactly one message:send with
\* {text, receiverId = recipient id, conversationId or null} when
\* getSocket() returns a socket at that instant and nothing when it returns
\* none, appends the message and clears the input; a send with blank text
\* emits nothing.
C12_SendEmission ==
  [][sendMessage =>
       IF trim(messageText) # <<>>
         THEN /\ emitted' = IF getSocket # NoSocket
                              THEN Append(emitted, sendPayload(messageText, recipientId))
                              ELSE emitted
              /\ Len(messages') = Len(messages) + 1
              /\ messageText' = <<>>
         ELSE emitted' = emitted]_vars

\* C13: the step from Login to Home leaves both 'token' and 'user' of the
\* attempt written in the session store; an attempt with an empty email or
\* password, and one the server rejects with a failure response, leave the
\* store unchanged and the screen on Login and show an error; after a
\* network error the mock token and user are what is stored on the way to
\* Home; whenever an attempt that passed the empty-field check ends, the
\* loading flag is false.
C13_LoginOutcomes ==
  [][/\ (screen = "Login" /\ screen' = "Home") =>
          /\ store'.token = loginPending.token
          /\ store'.token # NoToken
          /\ store'.user = JSONstringify(loginPending.user)
          /\ store'.user # AbsentItem
          /\ loginAlert = "Info" =>
               store' = [token |-> MockToken, user |-> JSONstringify(MockLoginUser)]
     /\ \A emailEmpty, passwordEmpty \in BOOLEAN :
          (handleLogin(emailEmpty, passwordEmpty) /\ (emailEmpty \/ passwordEmpty)) =>
            /\ store' = store
            /\ screen' = "Login"
            /\ loginAlert' = "Error"
            /\ ~loginLoading'
     /\ loginPostRejected =>
          /\ store' = store
          /\ screen' = "Login"
          /\ loginAlert' = "Error"
     /\ loginPostNetworkError =>
          /\ loginPending' = [token |-> MockToken, user |-> MockLoginUser]
          /\ loginPc' = "setToken"
          /\ loginAlert' = "Info"
     /\ (loginPc # "idle" /\ loginPc' = "idle") => ~loginLoading']_vars

\* C13 witness: with a remote base URL the mock login is in the store and
\* Home is shown, which only the recovery from a network error produces.
C13_Witness ==
  /\ ~baseURLLocal
  /\ screen = "Home"
  /\ store = [token |-> MockToken, user |-> JSONstringify(MockLoginUser)]
  /\ ~loginLoading

====
